---- MODULE Spec2Model ----
(***************************************************************************)
(* Regex colours of NeoMutt (color/regex.c): nine lists of RegexColor,     *)
(* one per colour id, filled by add_pattern() through the two parse        *)
(* functions and emptied by regex_colors_clear().                          *)
(***************************************************************************)
EXTENDS Integers, Sequences, FiniteSets, Bags, TLC

\* lists:  the nine RegexColorLists
\* sent:   the events the last call sent to ColorsNotify
\* last:   the last call, its arguments and what it returned
\* before: the nine lists as the last call found them
\* cid:    the colour id the commands name; under Spec it is drawn once, so
\*         that one run fills one list and the runs together all nine, and
\*         under Spec2 SwitchId changes it
\* live:   the allocations made and not yet released, as a bag
VARIABLES lists, sent, last, before, cid, live

vars == <<lists, sent, last, before, cid, live>>

(* ------------------------------------------------------------------ *)
(* Bounds of the model                                                 *)
(* ------------------------------------------------------------------ *)
\* most RegexColors linked into the nine lists together
MaxRules == 2

(* ------------------------------------------------------------------ *)
(* Values                                                              *)
(* ------------------------------------------------------------------ *)
\* a null pointer to a structure, and the NULL regex_colors_get_list() returns
NULL == [null |-> TRUE]
NoList == "NULL"

MUTT_CMD_SUCCESS == "MUTT_CMD_SUCCESS"
MUTT_CMD_ERROR == "MUTT_CMD_ERROR"

\* the colour ids add_pattern() is reached with, and one that has no list
ListColorIds ==
  { "MT_COLOR_ATTACH_HEADERS", "MT_COLOR_BODY", "MT_COLOR_HEADER",
    "MT_COLOR_INDEX", "MT_COLOR_INDEX_AUTHOR", "MT_COLOR_INDEX_FLAGS",
    "MT_COLOR_INDEX_SUBJECT", "MT_COLOR_INDEX_TAG", "MT_COLOR_STATUS" }

ColorId == ListColorIds \cup { "MT_COLOR_NORMAL" }

IndexColorIds ==
  { "MT_COLOR_INDEX", "MT_COLOR_INDEX_AUTHOR", "MT_COLOR_INDEX_FLAGS",
    "MT_COLOR_INDEX_SUBJECT", "MT_COLOR_INDEX_TAG" }

\* the nine global lists
ListNames ==
  { "AttachList", "BodyList", "HeaderList", "IndexAuthorList", "IndexFlagsList",
    "IndexList", "IndexSubjectList", "IndexTagList", "StatusList" }

\* patterns are strings of these characters
Patterns == { <<"a">>, <<"A">>, <<"a", "b">>, <<"(", "a">> }

\* values of the config "simple_search"; "%s" stands for the user's string
SimpleSearches == { <<"~", "s", " ", "%s">>, <<"(", "%s">> }

\* the config is not read
NoConfig == << >>

\* the <<fg, bg, attrs>> the callers hand in: two colours, two attribute flags
Styles == { <<1, 1, 1>>, <<2, 2, 1>>, <<1, 1, 2>> }
Matches == { 0, 1 }

(* ------------------------------------------------------------------ *)
(* Strings                                                             *)
(* ------------------------------------------------------------------ *)
IsUpper(c) == c \in { "A", "B" }

ToLower(c) == IF c = "A" THEN "a" ELSE IF c = "B" THEN "b" ELSE c

\* mutt_str_equal(): byte-wise comparison
mutt_str_equal(a, b) == a = b

\* mutt_istr_equal(): comparison after case folding
mutt_istr_equal(a, b) ==
  /\ Len(a) = Len(b)
  /\ \A i \in 1..Len(a) : ToLower(a[i]) = ToLower(b[i])

\* mutt_mb_is_lower(): no character of the string is an uppercase letter
mutt_mb_is_lower(s) == \A i \in 1..Len(s) : ~IsUpper(s[i])

\* mutt_str_dup(): an owned copy of the characters
mutt_str_dup(s) == [i \in 1..Len(s) |-> s[i]]

(* ------------------------------------------------------------------ *)
(* External capabilities                                               *)
(* ------------------------------------------------------------------ *)
\* "(" less ")" among s[1..n]
ParenBalance(s, n) ==
  Cardinality({ i \in 1..n : s[i] = "(" }) - Cardinality({ i \in 1..n : s[i] = ")" })

\* nesting depth after reading s[1..n]; -1 once a ")" has no partner
ParenDepth(s, n) ==
  IF \E k \in 1..n : ParenBalance(s, k) < 0 THEN -1 ELSE ParenBalance(s, n)

\* REG_COMP(): regcomp() with REG_EXTENDED; 0 or an error code
REG_COMP(s, flags) ==
  IF ParenDepth(s, Len(s)) = 0
    THEN [r |-> 0, regex |-> [src |-> s, icase |-> flags = "REG_ICASE"]]
    ELSE [r |-> 1, regex |-> NULL]

RECURSIVE Expand(_, _, _)
\* the first n elements of template t with every "%s" replaced by s
Expand(t, n, s) ==
  IF n = 0 THEN << >>
  ELSE Expand(t, n - 1, s) \o (IF t[n] = "%s" THEN s ELSE << t[n] >>)

\* mutt_check_simple(): a plain string becomes a full pattern expression
mutt_check_simple(s, simple) ==
  IF \E i \in 1..Len(s) : s[i] = "~" THEN s ELSE Expand(simple, Len(simple), s)

\* mutt_pattern_comp(): the compiled PatternList, or NULL
mutt_pattern_comp(buf) ==
  IF ParenDepth(buf, Len(buf)) = 0 THEN [expr |-> buf] ELSE NULL

\* curses_color_new(): the CursesColor of a (fg, bg) pair
curses_color_new(fg, bg) == [fg |-> fg, bg |-> bg]

(* ------------------------------------------------------------------ *)
(* RegexColor                                                          *)
(* ------------------------------------------------------------------ *)
\* regex_color_new(): a zeroed RegexColor
regex_color_new ==
  [ pattern |-> << >>, regex |-> NULL, color_pattern |-> NULL, match |-> 0,
    curses_color |-> NULL, attrs |-> 0, stop_matching |-> FALSE ]

\* a table in which the index-author class shares the list of the index class
regex_colors_get_list_shared(id) ==
  CASE id = "MT_COLOR_ATTACH_HEADERS" -> "AttachList"
    [] id = "MT_COLOR_BODY" -> "BodyList"
    [] id = "MT_COLOR_HEADER" -> "HeaderList"
    [] id = "MT_COLOR_INDEX" -> "IndexList"
    [] id = "MT_COLOR_INDEX_AUTHOR" -> "IndexList"
    [] id = "MT_COLOR_INDEX_FLAGS" -> "IndexFlagsList"
    [] id = "MT_COLOR_INDEX_SUBJECT" -> "IndexSubjectList"
    [] id = "MT_COLOR_INDEX_TAG" -> "IndexTagList"
    [] id = "MT_COLOR_STATUS" -> "StatusList"
    [] OTHER -> NoList

\* regex_colors_get_list()
regex_colors_get_list(id) ==
  CASE id = "MT_COLOR_ATTACH_HEADERS" -> "AttachList"
    [] id = "MT_COLOR_BODY" -> "BodyList"
    [] id = "MT_COLOR_HEADER" -> "HeaderList"
    [] id = "MT_COLOR_INDEX" -> "IndexList"
    [] id = "MT_COLOR_INDEX_AUTHOR" -> "IndexAuthorList"
    [] id = "MT_COLOR_INDEX_FLAGS" -> "IndexFlagsList"
    [] id = "MT_COLOR_INDEX_SUBJECT" -> "IndexSubjectList"
    [] id = "MT_COLOR_INDEX_TAG" -> "IndexTagList"
    [] id = "MT_COLOR_STATUS" -> "StatusList"
    [] OTHER -> NoList

(* ------------------------------------------------------------------ *)
(* Allocations                                                         *)
(* ------------------------------------------------------------------ *)
\* an allocation: the RegexColor itself, its regex, its PatternList, its
\* CursesColor
Struct == [kind |-> "RegexColor", obj |-> NULL]
Matcher(rcol) ==
  IF rcol.regex # NULL THEN [kind |-> "regex_t", obj |-> rcol.regex]
  ELSE [kind |-> "PatternList", obj |-> rcol.color_pattern]
Handle(cc) == [kind |-> "CursesColor", obj |-> cc]

\* the two events of the heap
Alloc(r) == [ev |-> "alloc", res |-> r]
Release(r) == [ev |-> "free", res |-> r]

RECURSIVE Settle(_, _)
\* the allocations left after the events evs; a release of something that is
\* not allocated leaves a mark
Settle(b, evs) ==
  IF evs = << >> THEN b
  ELSE LET e == Head(evs)
           b2 == IF e.ev = "alloc" THEN b (+) SetToBag({ e.res })
                 ELSE IF BagIn(e.res, b) THEN b (-) SetToBag({ e.res })
                 ELSE b (+) SetToBag({ [kind |-> "invalid free", obj |-> e.res] })
       IN Settle(b2, Tail(evs))

\* regex_color_clear(): what attr_color_clear(), regfree() and
\* mutt_pattern_free() release
regex_color_clear(rcol) ==
  (IF rcol.curses_color # NULL THEN << Release(Handle(rcol.curses_color)) >> ELSE << >>)
  \o (IF rcol.regex # NULL \/ rcol.color_pattern # NULL
        THEN << Release(Matcher(rcol)) >> ELSE << >>)

\* regex_color_free(): regex_color_clear() and FREE()
regex_color_free(rcol) == regex_color_clear(rcol) \o << Release(Struct) >>

\* an update that takes a new CursesColor and keeps the old one allocated
UpdateEvents_leak(rcol, fg, bg) ==
  LET cc == rcol.curses_color
  IN IF cc # NULL /\ (cc.fg # fg \/ cc.bg # bg)
       THEN << Alloc(Handle(curses_color_new(fg, bg))) >>
       ELSE << >>

\* "different colours": attr_color_clear(), then curses_color_new()
UpdateEvents(rcol, fg, bg) ==
  LET cc == rcol.curses_color
  IN IF cc # NULL /\ (cc.fg # fg \/ cc.bg # bg)
       THEN << Release(Handle(cc)), Alloc(Handle(curses_color_new(fg, bg))) >>
       ELSE << >>

\* the allocations of a RegexColor that is linked into a list
InsertEvents(rcol) ==
  << Alloc(Struct), Alloc(Matcher(rcol)), Alloc(Handle(rcol.curses_color)) >>

\* regex_color_new(), and regex_color_free() after the failed compilation
FailureEvents(rcol) == << Alloc(Struct) >> \o regex_color_free(rcol)

(* ------------------------------------------------------------------ *)
(* add_pattern()                                                       *)
(* ------------------------------------------------------------------ *)

\* the loop with the byte-wise comparison on both branches
PatternMatches_exact(s, pattern, sensitive) == mutt_str_equal(s, pattern)

\* the comparison of the STAILQ_FOREACH loop
PatternMatches(s, pattern, sensitive) ==
  \/ sensitive /\ mutt_str_equal(s, pattern)
  \/ ~sensitive /\ mutt_istr_equal(s, pattern)

\* the STAILQ_FOREACH loop: position of the first matching RegexColor, 0 if none
FindPattern(rcl, s, sensitive) ==
  IF \E i \in 1..Len(rcl) : PatternMatches(s, rcl[i].pattern, sensitive)
    THEN CHOOSE i \in 1..Len(rcl) :
           /\ PatternMatches(s, rcl[i].pattern, sensitive)
           /\ \A j \in 1..(i - 1) : ~PatternMatches(s, rcl[j].pattern, sensitive)
    ELSE 0

\* attr_color_clear(): the colour is given back and the attributes are reset
attr_color_clear(rcol) == [rcol EXCEPT !.curses_color = NULL, !.attrs = 0]

\* an update that never renews the colour
UpdateColor_keep(rcol, fg, bg, attrs) == [rcol EXCEPT !.attrs = attrs]

\* an update that empties the whole RegexColor, not only its colour
UpdateColor_clear(rcol, fg, bg, attrs) ==
  [rcol EXCEPT !.match = 0, !.stop_matching = FALSE,
               !.curses_color = curses_color_new(fg, bg), !.attrs = attrs]

\* an update that sets the attributes only with a new colour
UpdateColor_inner(rcol, fg, bg, attrs) ==
  LET cc == rcol.curses_color
  IN IF cc # NULL /\ (cc.fg # fg \/ cc.bg # bg)
       THEN [rcol EXCEPT !.curses_color = curses_color_new(fg, bg), !.attrs = attrs]
       ELSE rcol

\* "found a matching regex": the colour and the attributes of rcol are renewed
UpdateColor(rcol, fg, bg, attrs) ==
  LET cc == rcol.curses_color
      r2 == IF cc # NULL /\ (cc.fg # fg \/ cc.bg # bg)
              THEN [attr_color_clear(rcol) EXCEPT
                      !.curses_color = [curses_color_new(fg, bg) EXCEPT !.fg = fg, !.bg = bg]]
              ELSE rcol
  IN [r2 EXCEPT !.attrs = attrs]


\* flags that follow the sensitive argument alone
RegexFlags_strict(s, sensitive) == IF sensitive THEN "0" ELSE "REG_ICASE"

\* the flags REG_COMP() is called with
RegexFlags(s, sensitive) ==
  IF sensitive
    THEN (IF mutt_mb_is_lower(s) THEN "REG_ICASE" ELSE "0")
    ELSE "REG_ICASE"

\* "create a new regex": the new RegexColor with its compiled matcher, NULL
\* where the compilation failed
CompileMatcher(s, sensitive, is_index, c_simple_search) ==
  IF is_index
    THEN [regex_color_new EXCEPT
            !.color_pattern = mutt_pattern_comp(mutt_check_simple(s, c_simple_search))]
    ELSE [regex_color_new EXCEPT !.regex = REG_COMP(s, RegexFlags(s, sensitive)).regex]

\* !rcol->color_pattern, and r != 0
CompileFailed(rcol, s, sensitive, is_index) ==
  IF is_index
    THEN rcol.color_pattern = NULL
    ELSE REG_COMP(s, RegexFlags(s, sensitive)).r # 0


\* the RegexColor that did not compile is left in the list
FreeUnlinked_linked(rcl, rcol) == Append(rcl, rcol)

\* regex_color_free() that unlinks the last RegexColor of the list
FreeUnlinked_tail(rcl, rcol) ==
  IF rcl = << >> THEN rcl ELSE SubSeq(rcl, 1, Len(rcl) - 1)

\* regex_color_free() of the RegexColor that did not compile: it was never
\* linked, the list stays as it is
FreeUnlinked(rcl, rcol) == rcl

\* the new RegexColor keeps match = 0
FillRegexColor_nomatch(rcol, s, fg, bg, attrs, match) ==
  [rcol EXCEPT !.pattern = mutt_str_dup(s),
               !.curses_color = curses_color_new(fg, bg), !.attrs = attrs]

\* the fields set once the matcher is compiled
FillRegexColor(rcol, s, fg, bg, attrs, match) ==
  [rcol EXCEPT !.pattern = mutt_str_dup(s), !.match = match,
               !.curses_color = curses_color_new(fg, bg), !.attrs = attrs]


\* STAILQ_INSERT_HEAD
InsertTail_head(rcl, rcol) == << rcol >> \o rcl

\* STAILQ_INSERT_TAIL
InsertTail(rcl, rcol) == Append(rcl, rcol)


\* no event at all
IndexEvent_none(is_index) == << >>

\* notify_send() of the EventColor, for the index colours only
IndexEvent(is_index) ==
  IF is_index THEN << [color |-> "MT_COLOR_INDEX"] >> ELSE << >>

\* an add_pattern() that compiles the matcher ahead of the scan of the list
add_pattern_eager(rcl, s, sensitive, fg, bg, attrs, is_index, match, c_simple_search) ==
  LET i == FindPattern(rcl, s, sensitive)
      rcol == CompileMatcher(s, sensitive, is_index, c_simple_search)
  IN IF CompileFailed(rcol, s, sensitive, is_index)
       THEN [ rcl |-> FreeUnlinked(rcl, rcol), sent |-> << >>,
              rc |-> MUTT_CMD_ERROR, comp |-> 1,
              mem |-> FailureEvents(rcol) ]
       ELSE IF i # 0
         THEN [ rcl |-> [rcl EXCEPT ![i] = UpdateColor(rcl[i], fg, bg, attrs)],
                sent |-> IndexEvent(is_index), rc |-> MUTT_CMD_SUCCESS, comp |-> 1,
                mem |-> UpdateEvents(rcl[i], fg, bg) ]
         ELSE [ rcl |-> InsertTail(rcl, FillRegexColor(rcol, s, fg, bg, attrs, match)),
                sent |-> IndexEvent(is_index), rc |-> MUTT_CMD_SUCCESS, comp |-> 1,
                mem |-> InsertEvents(FillRegexColor(rcol, s, fg, bg, attrs, match)) ]

\* add_pattern(): the list afterwards, the events sent, the result, and the
\* number of calls of mutt_pattern_comp() and REG_COMP() it made
add_pattern(rcl, s, sensitive, fg, bg, attrs, is_index, match, c_simple_search) ==
  LET i == FindPattern(rcl, s, sensitive)
  IN IF i # 0
       THEN [ rcl |-> [rcl EXCEPT ![i] = UpdateColor(rcl[i], fg, bg, attrs)],
              sent |-> IndexEvent(is_index), rc |-> MUTT_CMD_SUCCESS, comp |-> 0,
              mem |-> UpdateEvents(rcl[i], fg, bg) ]
       ELSE LET rcol == CompileMatcher(s, sensitive, is_index, c_simple_search)
            IN IF CompileFailed(rcol, s, sensitive, is_index)
                 THEN [ rcl |-> FreeUnlinked(rcl, rcol), sent |-> << >>,
                        rc |-> MUTT_CMD_ERROR, comp |-> 1, mem |-> FailureEvents(rcol) ]
                 ELSE [ rcl |-> InsertTail(rcl, FillRegexColor(rcol, s, fg, bg, attrs, match)),
                        sent |-> IndexEvent(is_index), rc |-> MUTT_CMD_SUCCESS, comp |-> 1,
                        mem |-> InsertEvents(FillRegexColor(rcol, s, fg, bg, attrs, match)) ]

(* ------------------------------------------------------------------ *)
(* State and operations                                                *)
(* ------------------------------------------------------------------ *)
\* the RegexColors linked into the nine lists
TotalRules(ls) ==
  Len(ls["AttachList"]) + Len(ls["BodyList"]) + Len(ls["HeaderList"])
    + Len(ls["IndexAuthorList"]) + Len(ls["IndexFlagsList"]) + Len(ls["IndexList"])
    + Len(ls["IndexSubjectList"]) + Len(ls["IndexTagList"]) + Len(ls["StatusList"])

\* the record of a call that takes no arguments and returns nothing
NoCall ==
  [ op |-> "none", color |-> "none", pat |-> << >>, fg |-> 0, bg |-> 0, attrs |-> 0,
    match |-> 0, rc |-> "unwritten", ret |-> "void", comp |-> 0, simple_search |-> NoConfig,
    mem |-> << >> ]

\* regex_colors_init()
Init ==
  /\ lists = [l \in ListNames |-> << >>]
  /\ sent = << >>
  /\ last = [NoCall EXCEPT !.op = "regex_colors_init"]
  /\ before = [l \in ListNames |-> << >>]
  /\ cid \in ColorId
  /\ live = EmptyBag

\* the switch with a case for every list regex_colors_get_list() knows
CaseList_getlist(color) == regex_colors_get_list(color)

\* the list named in each case of the switch of regex_colors_parse_color_list()
CaseList(color) ==
  CASE color = "MT_COLOR_ATTACH_HEADERS" -> "AttachList"
    [] color = "MT_COLOR_BODY" -> "BodyList"
    [] color = "MT_COLOR_HEADER" -> "HeaderList"
    [] color = "MT_COLOR_INDEX" -> "IndexList"
    [] color = "MT_COLOR_INDEX_AUTHOR" -> "IndexAuthorList"
    [] color = "MT_COLOR_INDEX_FLAGS" -> "IndexFlagsList"
    [] color = "MT_COLOR_INDEX_SUBJECT" -> "IndexSubjectList"
    [] color = "MT_COLOR_INDEX_TAG" -> "IndexTagList"
    [] OTHER -> NoList


\* every case of the switch passes sensitive = true
Sensitive_all(color) == TRUE

\* the sensitive argument of each case of that switch
Sensitive(color) == color # "MT_COLOR_HEADER"
\* is_index = true in the case of MT_COLOR_INDEX alone
IsIndex_one(color) == color = "MT_COLOR_INDEX"

\* whether the case of the switch passes is_index = true
IsIndex(color) == color \in IndexColorIds

\* the value returned follows the result of add_pattern()
ParseReturn_rc(rc) == IF rc = MUTT_CMD_SUCCESS THEN "true" ELSE "false"

\* "return true" behind the switch of regex_colors_parse_color_list()
ParseReturn(rc) == "true"

\* a result that is stored and empties the other eight lists
Apply_reset(l, res) ==
  /\ TotalRules(lists) - Len(lists[l]) + Len(res.rcl) <= MaxRules
  /\ lists' = [x \in ListNames |-> IF x = l THEN res.rcl ELSE << >>]
  /\ sent' = res.sent
  /\ live' = Settle(live, res.mem)

\* the state after add_pattern() ran on list l with result res
Apply(l, res) ==
  /\ TotalRules(lists) - Len(lists[l]) + Len(res.rcl) <= MaxRules
  /\ lists' = [lists EXCEPT ![l] = res.rcl]
  /\ sent' = res.sent
  /\ live' = Settle(live, res.mem)

\* regex_colors_parse_color_list()
regex_colors_parse_color_list(color, pat, fg, bg, attrs, c_simple_search) ==
  LET call == [ NoCall EXCEPT !.op = "regex_colors_parse_color_list", !.color = color,
                              !.pat = pat, !.fg = fg, !.bg = bg, !.attrs = attrs,
                              !.simple_search = c_simple_search ]
      l == CaseList(color)
  IN /\ before' = lists
     /\ IF l # NoList
          THEN \E res \in { add_pattern(lists[l], pat, Sensitive(color), fg, bg, attrs,
                                         IsIndex(color), 0, c_simple_search) } :
                  /\ Apply(l, res)
                  /\ last' = [call EXCEPT !.rc = res.rc, !.ret = ParseReturn(res.rc),
                                          !.comp = res.comp, !.mem = res.mem]
          ELSE /\ UNCHANGED << lists, live >>
               /\ sent' = << >>
               /\ last' = [call EXCEPT !.ret = "false"]

\* regex_colors_parse_status_list()
regex_colors_parse_status_list(color, pat, fg, bg, attrs, match) ==
  LET call == [ NoCall EXCEPT !.op = "regex_colors_parse_status_list", !.color = color,
                              !.pat = pat, !.fg = fg, !.bg = bg, !.attrs = attrs,
                              !.match = match ]
  IN /\ before' = lists
     /\ IF color # "MT_COLOR_STATUS"
          THEN /\ UNCHANGED << lists, live >>
               /\ sent' = << >>
               /\ last' = [call EXCEPT !.ret = "-1"]
          ELSE \E res \in { add_pattern(lists["StatusList"], pat, TRUE, fg, bg, attrs,
                                         FALSE, match, NoConfig) } :
                  /\ Apply("StatusList", res)
                  /\ last' = [call EXCEPT !.ret = res.rc, !.comp = res.comp, !.mem = res.mem]

\* a clear that leaves the rules linked
regex_color_list_clear_keep(rcl) == rcl

\* regex_color_list_clear(): every RegexColor is removed and freed
regex_color_list_clear(rcl) == << >>

RECURSIVE ClearEvents(_, _)
\* the STAILQ_FOREACH_SAFE loop: regex_color_free() of the first n RegexColors
ClearEvents(rcl, n) ==
  IF n = 0 THEN << >> ELSE ClearEvents(rcl, n - 1) \o regex_color_free(rcl[n])

RECURSIVE ClearAllEvents(_, _)
\* regex_color_list_clear() of the lists named in the sequence ls
ClearAllEvents(ls, n) ==
  IF n = 0 THEN << >>
  ELSE ClearAllEvents(ls, n - 1) \o ClearEvents(lists[ls[n]], Len(lists[ls[n]]))

\* the nine lists in the order regex_colors_clear() goes through them
ClearOrder ==
  << "AttachList", "BodyList", "HeaderList", "IndexList", "IndexAuthorList",
     "IndexFlagsList", "IndexSubjectList", "IndexTagList", "StatusList" >>

\* regex_colors_clear()
regex_colors_clear ==
  LET mem == ClearAllEvents(ClearOrder, Len(ClearOrder))
  IN /\ before' = lists
     /\ lists' = [l \in ListNames |-> regex_color_list_clear(lists[l])]
     /\ sent' = << >>
     /\ live' = Settle(live, mem)
     /\ last' = [NoCall EXCEPT !.op = "regex_colors_clear", !.mem = mem]

\* regex_color_list_clear() of the list regex_colors_get_list() returns
ListClear(color) ==
  LET l == regex_colors_get_list(color)
      mem == IF l = NoList THEN << >> ELSE ClearEvents(lists[l], Len(lists[l]))
  IN /\ before' = lists
     /\ lists' = IF l = NoList THEN lists
                 ELSE [lists EXCEPT ![l] = regex_color_list_clear(lists[l])]
     /\ sent' = << >>
     /\ live' = Settle(live, mem)
     /\ last' = [NoCall EXCEPT !.op = "regex_color_list_clear", !.color = color,
                               !.mem = mem]

\* a call of regex_colors_get_list(): the list is returned, nothing is written
GetList ==
  /\ before' = lists
  /\ UNCHANGED << lists, cid, live >>
  /\ sent' = << >>
  /\ last' = [NoCall EXCEPT !.op = "regex_colors_get_list", !.color = cid,
                            !.ret = regex_colors_get_list(cid)]

\* the values "simple_search" can have when a call for class color reads it
ConfigRead(color) == IF IsIndex(color) THEN SimpleSearches ELSE { NoConfig }

\* the arguments of a call: a parse function that does not serve the class
\* returns before it reads its other arguments, one choice of them stands
\* for all
PatternsRead(served) == IF served THEN Patterns ELSE { <<"a">> }
StylesRead(served) == IF served THEN Styles ELSE { <<1, 1, 1>> }
MatchesRead(served) == IF served THEN Matches ELSE { 0 }

ParseColorList ==
  \E pat \in PatternsRead(CaseList(cid) # NoList),
     st \in StylesRead(CaseList(cid) # NoList),
     c_simple_search \in ConfigRead(cid) :
    /\ regex_colors_parse_color_list(cid, pat, st[1], st[2], st[3], c_simple_search)
    /\ UNCHANGED cid

ParseStatusList ==
  \E pat \in PatternsRead(cid = "MT_COLOR_STATUS"),
     st \in StylesRead(cid = "MT_COLOR_STATUS"),
     match \in MatchesRead(cid = "MT_COLOR_STATUS") :
    /\ regex_colors_parse_status_list(cid, pat, st[1], st[2], st[3], match)
    /\ UNCHANGED cid

ColorsClear == regex_colors_clear /\ UNCHANGED cid

ColorListClear == ListClear(cid) /\ UNCHANGED cid

Next ==
  \/ ParseColorList
  \/ ParseStatusList
  \/ ColorsClear
  \/ ColorListClear
  \/ GetList

Spec == Init /\ [][Next]_vars

(* ------------------------------------------------------------------ *)
(* Commands for more than one colour id                                *)
(* ------------------------------------------------------------------ *)
\* the patterns and styles of the runs that go from one colour id to another
Patterns2 == { <<"a">>, <<"(", "a">> }
Styles2 == { <<1, 1, 1>>, <<2, 2, 1>> }

\* the value of "simple_search" in these runs
DefaultSimpleSearch == <<"~", "s", " ", "%s">>

ParseColorList2 ==
  \E pat \in Patterns2, st \in Styles2 :
    /\ regex_colors_parse_color_list(cid, pat, st[1], st[2], st[3],
                                     IF IsIndex(cid) THEN DefaultSimpleSearch ELSE NoConfig)
    /\ UNCHANGED cid

ParseStatusList2 ==
  \E pat \in Patterns2, st \in Styles2 :
    /\ regex_colors_parse_status_list(cid, pat, st[1], st[2], st[3], 0)
    /\ UNCHANGED cid

\* the next commands name another colour id; no function is called
SwitchId ==
  /\ cid' \in ColorId \ { cid }
  /\ before' = lists
  /\ sent' = << >>
  /\ last' = NoCall
  /\ UNCHANGED << lists, live >>

Next2 ==
  \/ ParseColorList2
  \/ ParseStatusList2
  \/ ColorsClear
  \/ ColorListClear
  \/ GetList
  \/ SwitchId

Spec2 == Init /\ [][Next2]_vars

(* ------------------------------------------------------------------ *)
(* Vocabulary of the properties                                        *)
(* ------------------------------------------------------------------ *)
\* the list that belongs to each rule class
ClassList ==
  [ c \in ListColorIds |->
      CASE c = "MT_COLOR_ATTACH_HEADERS" -> "AttachList"
        [] c = "MT_COLOR_BODY" -> "BodyList"
        [] c = "MT_COLOR_HEADER" -> "HeaderList"
        [] c = "MT_COLOR_INDEX" -> "IndexList"
        [] c = "MT_COLOR_INDEX_AUTHOR" -> "IndexAuthorList"
        [] c = "MT_COLOR_INDEX_FLAGS" -> "IndexFlagsList"
        [] c = "MT_COLOR_INDEX_SUBJECT" -> "IndexSubjectList"
        [] c = "MT_COLOR_INDEX_TAG" -> "IndexTagList"
        [] c = "MT_COLOR_STATUS" -> "StatusList" ]

\* the classes matched against text, and those matched against records
LiteralClasses ==
  { "MT_COLOR_ATTACH_HEADERS", "MT_COLOR_BODY", "MT_COLOR_HEADER", "MT_COLOR_STATUS" }
StructuredClasses == ListColorIds \ LiteralClasses

\* the one class whose patterns are compared case-folded
FoldedClasses == { "MT_COLOR_HEADER" }

Folded(p) == [i \in 1..Len(p) |-> ToLower(p[i])]

\* equality of two pattern texts under the case policy of class c
SamePattern(c, p, q) == IF c \in FoldedClasses THEN Folded(p) = Folded(q) ELSE p = q

\* the last call was an add-or-update that reached the engine
AddCall ==
  \/ last.op = "regex_colors_parse_color_list"
       /\ last.color \in ListColorIds \ { "MT_COLOR_STATUS" }
  \/ last.op = "regex_colors_parse_status_list" /\ last.color = "MT_COLOR_STATUS"

\* what the add-or-update reported: through rc, or as the value returned
AddResult ==
  IF last.op = "regex_colors_parse_status_list" THEN last.ret ELSE last.rc

\* the list of the last add-or-update, as the call found it and as it left it
Old == before[ClassList[last.color]]
New == lists[ClassList[last.color]]

\* the positions at which the list held the pattern of the last call
Hits == { i \in 1..Len(Old) : SamePattern(last.color, Old[i].pattern, last.pat) }

\* the last call was an update, an insert, a failed add
IsUpdate == AddCall /\ Hits # {}
IsInsert == AddCall /\ Hits = {} /\ AddResult = MUTT_CMD_SUCCESS
IsFailure == AddCall /\ AddResult = MUTT_CMD_ERROR

\* the (fg, bg) a RegexColor is drawn with
ColourOf(rcol) ==
  IF rcol.curses_color = NULL THEN << >>
  ELSE << rcol.curses_color.fg, rcol.curses_color.bg >>

(* ------------------------------------------------------------------ *)
(* C1                                                                  *)
(* ------------------------------------------------------------------ *)
\* C1: in every list no two rules have patterns that are equal under the
\* case policy of the list's class, and an add whose pattern is already in
\* the list leaves the length of the list as it was.
C1_UniquePatterns ==
  /\ \A c \in ListColorIds :
       \A i, j \in 1..Len(lists[ClassList[c]]) :
         i # j => ~SamePattern(c, lists[ClassList[c]][i].pattern,
                                  lists[ClassList[c]][j].pattern)
  /\ IsUpdate => Len(New) = Len(Old)

\* an add on the header class found its pattern in another spelling
C1_Witness ==
  /\ IsUpdate
  /\ last.color = "MT_COLOR_HEADER"
  /\ \E i \in Hits : Old[i].pattern # last.pat

(* ------------------------------------------------------------------ *)
(* C2                                                                  *)
(* ------------------------------------------------------------------ *)
\* C2: after a pattern that is already in the list is registered again with
\* colour B, the list holds exactly one rule with that pattern and the
\* colour of that rule is B.
C2_Recolour ==
  IsUpdate =>
    /\ Cardinality({ i \in 1..Len(New) :
                       SamePattern(last.color, New[i].pattern, last.pat) }) = 1
    /\ \A i \in 1..Len(New) :
         SamePattern(last.color, New[i].pattern, last.pat)
           => ColourOf(New[i]) = << last.fg, last.bg >>

\* a rule was registered again with a colour other than the one it had
C2_Witness ==
  /\ IsUpdate
  /\ \E i \in Hits : ColourOf(Old[i]) # << last.fg, last.bg >>

(* ------------------------------------------------------------------ *)
(* C3                                                                  *)
(* ------------------------------------------------------------------ *)
\* C3: an add that fails to compile leaves every list, the target list
\* included, exactly as the call found it.
C3_FailureUnchanged == IsFailure => lists = before

\* a pattern failed to compile for a list that held a rule
C3_Witness == IsFailure /\ Len(Old) > 0

(* ------------------------------------------------------------------ *)
(* C4                                                                  *)
(* ------------------------------------------------------------------ *)
\* C4: an add-or-update on an index class sends exactly one notification
\* when it succeeds (insert or update) and none when the compile fails; an
\* add-or-update on a literal class sends none.
C4_NotifyCount ==
  AddCall =>
    Len(sent) = (IF last.color \in StructuredClasses /\ AddResult = MUTT_CMD_SUCCESS
                   THEN 1 ELSE 0)

\* an index rule was given a new colour and kept its attributes
C4_Witness ==
  /\ IsUpdate
  /\ last.color \in StructuredClasses
  /\ \E i \in Hits : ColourOf(Old[i]) # << last.fg, last.bg >> /\ Old[i].attrs = last.attrs
  /\ Len(sent) = 1

(* ------------------------------------------------------------------ *)
(* C5                                                                  *)
(* ------------------------------------------------------------------ *)
\* C5: the notification of a successful add-or-update on an index class
\* carries the identifier of the class whose list was modified.
C5_NotifyClass ==
  (AddCall /\ last.color \in StructuredClasses /\ AddResult = MUTT_CMD_SUCCESS)
    => \A k \in 1..Len(sent) : sent[k].color = last.color

(* ------------------------------------------------------------------ *)
(* C6                                                                  *)
(* ------------------------------------------------------------------ *)
\* C6: an insert appends the new rule behind the rules the list held, which
\* stay as they were and in their order; an update leaves every rule of the
\* list at its position.
C6_Order ==
  /\ IsInsert =>
       /\ Len(New) = Len(Old) + 1
       /\ \A i \in 1..Len(Old) : New[i] = Old[i]
       /\ New[Len(New)].pattern = last.pat
  /\ IsUpdate =>
       /\ Len(New) = Len(Old)
       /\ \A i \in 1..Len(Old) : New[i].pattern = Old[i].pattern

\* a rule was inserted into a list that held one already
C6_Witness == IsInsert /\ Len(Old) > 0

(* ------------------------------------------------------------------ *)
(* C7                                                                  *)
(* ------------------------------------------------------------------ *)
\* the list held the pattern of the last call in another spelling only
OtherSpellingOnly ==
  /\ \E i \in 1..Len(Old) : Folded(Old[i].pattern) = Folded(last.pat)
  /\ \A i \in 1..Len(Old) : Old[i].pattern # last.pat

\* C7: on attach, body and status a pattern that differs from a registered
\* one only in letter case is inserted as a rule of its own; on header it
\* is the registered rule, which keeps its pattern text and takes the colour
\* and the attributes of the call.
C7_CasePolicy ==
  (AddCall /\ OtherSpellingOnly /\ last.color \in LiteralClasses) =>
    IF last.color \in FoldedClasses
      THEN /\ Len(New) = Len(Old)
           /\ \A i \in 1..Len(Old) :
                /\ New[i].pattern = Old[i].pattern
                /\ Folded(Old[i].pattern) = Folded(last.pat)
                     => /\ ColourOf(New[i]) = << last.fg, last.bg >>
                        /\ New[i].attrs = last.attrs
      ELSE /\ AddResult = MUTT_CMD_SUCCESS
           /\ Len(New) = Len(Old) + 1
           /\ New[Len(New)].pattern = last.pat
           /\ \A i \in 1..Len(Old) : New[i] = Old[i]

\* "A" was registered on body, attach or status while "a" was in the list
C7_Witness ==
  /\ AddCall /\ OtherSpellingOnly
  /\ last.color \in LiteralClasses \ FoldedClasses
  /\ Len(New) = 2

(* ------------------------------------------------------------------ *)
(* C8                                                                  *)
(* ------------------------------------------------------------------ *)
HasUpper(p) == \E i \in 1..Len(p) : p[i] \in { "A", "B" }

\* C8: the regex of a rule inserted on a literal class ignores case exactly
\* if the class is the case-insensitive one or the pattern has no uppercase
\* letter.
C8_AutoRelax ==
  (IsInsert /\ last.color \in LiteralClasses) =>
    /\ New[Len(New)].regex # NULL
    /\ New[Len(New)].regex.icase
         = (last.color \in FoldedClasses \/ ~HasUpper(last.pat))

\* a case-sensitive class compiled a pattern with an uppercase letter
C8_Witness ==
  /\ IsInsert
  /\ last.color \in LiteralClasses \ FoldedClasses
  /\ HasUpper(last.pat)
  /\ ~New[Len(New)].regex.icase

(* ------------------------------------------------------------------ *)
(* C9                                                                  *)
(* ------------------------------------------------------------------ *)
\* what an update may not touch
Fixed(rcol) ==
  << rcol.pattern, rcol.regex, rcol.color_pattern, rcol.match, rcol.stop_matching >>

\* C9: an update leaves the pattern text, the position, the matcher and the
\* submatch index of the rule as they were, and the other rules of the list
\* untouched.
C9_UpdateFrame ==
  IsUpdate =>
    /\ Len(New) = Len(Old)
    /\ \A i \in 1..Len(Old) :
         /\ Fixed(New[i]) = Fixed(Old[i])
         /\ i \notin Hits => New[i] = Old[i]

\* a status pattern was registered again with another submatch index
C9_Witness ==
  /\ IsUpdate
  /\ last.color = "MT_COLOR_STATUS"
  /\ \E i \in Hits : Old[i].match # last.match /\ New[i].match = Old[i].match

(* ------------------------------------------------------------------ *)
(* C10                                                                 *)
(* ------------------------------------------------------------------ *)
\* C10: after an update the attributes of the rule are those of the call
\* and nothing else, whether or not the colours of the call differ from the
\* colours the rule had.
C10_AttrsReplaced ==
  IsUpdate => \A i \in Hits : New[i].attrs = last.attrs

\* a rule kept its colour and had its attributes replaced by other ones
C10_Witness ==
  /\ IsUpdate
  /\ \E i \in Hits :
       /\ ColourOf(Old[i]) = << last.fg, last.bg >>
       /\ Old[i].attrs # last.attrs
       /\ Old[i].attrs # 0

(* ------------------------------------------------------------------ *)
(* C11                                                                 *)
(* ------------------------------------------------------------------ *)
\* C11: in every reachable state each rule of the five index lists holds a
\* compiled pattern expression and no compiled regex, and each rule of the
\* attach, body, header and status lists holds a compiled regex and no
\* pattern expression.
C11_OneMatcher ==
  \A c \in ListColorIds :
    \A i \in 1..Len(lists[ClassList[c]]) :
      LET rcol == lists[ClassList[c]][i]
      IN IF c \in StructuredClasses
           THEN rcol.color_pattern # NULL /\ rcol.regex = NULL
           ELSE rcol.regex # NULL /\ rcol.color_pattern = NULL

\* a rule of one of the four index sub-classes has been updated
C11_Witness ==
  /\ IsUpdate
  /\ last.color \in StructuredClasses \ { "MT_COLOR_INDEX" }
  /\ \E i \in Hits : New[i].color_pattern # NULL

(* ------------------------------------------------------------------ *)
(* C12                                                                 *)
(* ------------------------------------------------------------------ *)
\* the last call went through one of the two dispatchers
ParseCall ==
  last.op \in { "regex_colors_parse_color_list", "regex_colors_parse_status_list" }

\* C12: a call of either dispatcher, whatever its outcome, removes no rule:
\* every list is at least as long as the call found it and holds the rules
\* it held, with their pattern texts, at their positions.
C12_NoRemoval ==
  ParseCall =>
    \A l \in ListNames :
      /\ Len(lists[l]) >= Len(before[l])
      /\ \A i \in 1..Len(before[l]) : lists[l][i].pattern = before[l][i].pattern

\* an add failed to compile for a list that held two rules
C12_Witness == IsFailure /\ Len(Old) = 2 /\ Len(New) = 2

(* ------------------------------------------------------------------ *)
(* C17                                                                 *)
(* ------------------------------------------------------------------ *)
\* C17: a rule inserted through the status dispatcher stores the submatch
\* index of the call, a rule inserted through the general dispatcher stores 0.
C17_Submatch ==
  IsInsert =>
    New[Len(New)].match
      = (IF last.op = "regex_colors_parse_status_list" THEN last.match ELSE 0)

\* a status rule was inserted with submatch index 1
C17_Witness ==
  /\ IsInsert
  /\ last.op = "regex_colors_parse_status_list"
  /\ last.match = 1
  /\ New[Len(New)].match = 1

(* ------------------------------------------------------------------ *)
(* C15                                                                 *)
(* ------------------------------------------------------------------ *)
\* the classes each dispatcher supports
GeneralClasses == ListColorIds \ { "MT_COLOR_STATUS" }
StatusClasses == { "MT_COLOR_STATUS" }

\* the last call handed a dispatcher a class it does not support
Rejected ==
  \/ last.op = "regex_colors_parse_color_list" /\ last.color \notin GeneralClasses
  \/ last.op = "regex_colors_parse_status_list" /\ last.color \notin StatusClasses

\* C15: a dispatcher that is handed a class it does not support reports
\* failure (false, and -1 for the status dispatcher), leaves all nine lists
\* as they were and sends no notification.
C15_Rejects ==
  Rejected =>
    /\ last.ret = (IF last.op = "regex_colors_parse_color_list" THEN "false" ELSE "-1")
    /\ lists = before
    /\ sent = << >>

\* the general dispatcher was handed the status class while the status list
\* held a rule
C15_Witness ==
  /\ Rejected
  /\ last.op = "regex_colors_parse_color_list"
  /\ last.color = "MT_COLOR_STATUS"
  /\ lists["StatusList"] # << >>

(* ------------------------------------------------------------------ *)
(* C20                                                                 *)
(* ------------------------------------------------------------------ *)
\* the list of the last call holds the pattern of the call
Registered == \E i \in 1..Len(New) : SamePattern(last.color, New[i].pattern, last.pat)

\* C20: regex_colors_parse_color_list returns true exactly for its eight
\* classes, whatever the add reported; rc is written exactly when it returns
\* true and then tells whether the pattern is registered.
\* regex_colors_parse_status_list returns the result of the add for the
\* status class and -1 for every other class.
C20_Reporting ==
  /\ last.op = "regex_colors_parse_color_list" =>
       /\ (last.ret = "true") = (last.color \in GeneralClasses)
       /\ (last.rc # "unwritten") = (last.ret = "true")
       /\ last.ret = "true" =>
            last.rc = (IF Registered THEN MUTT_CMD_SUCCESS ELSE MUTT_CMD_ERROR)
  /\ last.op = "regex_colors_parse_status_list" =>
       last.ret = (IF last.color \notin StatusClasses THEN "-1"
                   ELSE IF Registered THEN MUTT_CMD_SUCCESS ELSE MUTT_CMD_ERROR)

\* the general dispatcher returned true for an add that failed to compile
C20_Witness ==
  /\ last.op = "regex_colors_parse_color_list"
  /\ last.ret = "true"
  /\ last.rc = MUTT_CMD_ERROR

(* ------------------------------------------------------------------ *)
(* C16                                                                 *)
(* ------------------------------------------------------------------ *)
\* C16: regex_colors_get_list maps each of the nine rule classes to its own
\* list, nine different lists in all, maps every other id to no list, and a
\* call of it changes none of the lists and sends nothing.
C16_PureDispatch ==
  /\ \A c \in ListColorIds : regex_colors_get_list(c) \in ListNames
  /\ \A c, d \in ListColorIds :
       c # d => regex_colors_get_list(c) # regex_colors_get_list(d)
  /\ \A c \in ColorId \ ListColorIds : regex_colors_get_list(c) = NoList
  /\ last.op = "regex_colors_get_list" =>
       /\ last.ret = (IF last.color \in ListColorIds THEN ClassList[last.color] ELSE NoList)
       /\ lists = before
       /\ sent = << >>

\* the list of the index-author class was looked up while it held a rule
C16_Witness ==
  /\ last.op = "regex_colors_get_list"
  /\ last.color = "MT_COLOR_INDEX_AUTHOR"
  /\ last.ret = "IndexAuthorList"
  /\ lists["IndexAuthorList"] # << >>

(* ------------------------------------------------------------------ *)
(* C13                                                                 *)
(* ------------------------------------------------------------------ *)
\* the last call was a clear that reached the list of class c
Cleared(c) ==
  \/ last.op = "regex_colors_clear"
  \/ last.op = "regex_color_list_clear" /\ last.color = c

\* the step is a clear, a lookup after a clear, or an add after a clear
C13_Step ==
  /\ last'.op = "regex_colors_clear" =>
       /\ \A l \in ListNames : lists'[l] = << >>
       /\ (\A l \in ListNames : lists[l] = << >>) => lists' = lists
  /\ (last'.op = "regex_color_list_clear" /\ last'.color \in ListColorIds) =>
       lists'[ClassList[last'.color]] = << >>
  /\ (last'.op = "regex_colors_get_list" /\ last'.color \in ListColorIds
        /\ Cleared(last'.color)) =>
       /\ last'.ret = ClassList[last'.color]
       /\ lists'[last'.ret] = << >>
  /\ (AddCall' /\ Cleared(last'.color) /\ AddResult' = MUTT_CMD_SUCCESS
        /\ \E i \in 1..Len(before[ClassList[last'.color]]) :
             SamePattern(last'.color, before[ClassList[last'.color]][i].pattern, last'.pat)) =>
       /\ Len(New') = 1
       /\ New'[1].pattern = last'.pat
       /\ ColourOf(New'[1]) = << last'.fg, last'.bg >>
       /\ New'[1].attrs = last'.attrs

\* C13: after regex_colors_clear all nine lists are empty, and on an empty
\* registry it changes nothing; after a list is cleared regex_colors_get_list
\* still returns that list, now empty; a successful add of a pattern the
\* list held before the clear inserts a new rule into a list of length 1.
C13_Clear == [][C13_Step]_vars

\* the registry was cleared while a list held two rules
C13_Witness ==
  /\ last.op = "regex_colors_clear"
  /\ \E l \in ListNames : Len(before[l]) = 2 /\ lists[l] = << >>

(* ------------------------------------------------------------------ *)
(* C19                                                                 *)
(* ------------------------------------------------------------------ *)
\* the pattern of the last call would not have compiled when the call was made
Uncompilable ==
  IF IsIndex(last.color)
    THEN mutt_pattern_comp(mutt_check_simple(last.pat, last.simple_search)) = NULL
    ELSE REG_COMP(last.pat, RegexFlags(last.pat, Sensitive(last.color))).r # 0

\* C19: a call whose pattern is already in the list under the case policy of
\* the class compiles nothing and reports success, whether or not the
\* pattern would compile at that moment; a call that reports a compile error
\* found its pattern absent from the list.
C19_UpdateNoCompile ==
  /\ IsUpdate => AddResult = MUTT_CMD_SUCCESS /\ last.comp = 0
  /\ IsFailure => Hits = {}

\* an update of a pattern that would not have compiled at the time of the call
C19_Witness == IsUpdate /\ Uncompilable /\ AddResult = MUTT_CMD_SUCCESS

(* ------------------------------------------------------------------ *)
(* C14                                                                 *)
(* ------------------------------------------------------------------ *)
\* the RegexColors linked into any of the nine lists, as (list, position)
Linked == { <<l, i>> \in ListNames \X (1..MaxRules) : i <= Len(lists[l]) }

\* what the linked RegexColors own: themselves, their matcher, their colour
OwnedBy(rcol) ==
  SetToBag({ Struct })
    (+) (IF rcol.regex # NULL THEN SetToBag({ [kind |-> "regex_t", obj |-> rcol.regex] })
         ELSE EmptyBag)
    (+) (IF rcol.color_pattern # NULL
           THEN SetToBag({ [kind |-> "PatternList", obj |-> rcol.color_pattern] })
         ELSE EmptyBag)
    (+) (IF rcol.curses_color # NULL
           THEN SetToBag({ [kind |-> "CursesColor", obj |-> rcol.curses_color] })
         ELSE EmptyBag)

RECURSIVE OwnedIn(_, _)
OwnedIn(rcl, n) == IF n = 0 THEN EmptyBag ELSE OwnedIn(rcl, n - 1) (+) OwnedBy(rcl[n])

RECURSIVE OwnedUpTo(_)
OwnedUpTo(n) ==
  IF n = 0 THEN EmptyBag
  ELSE OwnedUpTo(n - 1) (+) OwnedIn(lists[ClearOrder[n]], Len(lists[ClearOrder[n]]))

Owned == OwnedUpTo(Len(ClearOrder))

\* the update of the last call found the RegexColor with another colour
Recoloured ==
  /\ IsUpdate
  /\ \E i \in Hits : ColourOf(Old[i]) \notin { << >>, << last.fg, last.bg >> }

OtherLists == ListNames \ { ClassList[last.color] }

\* C18: an add-or-update call for one class, whether it inserts, updates or
\* fails, leaves the lists of the other eight classes as they were: the same
\* RegexColors in the same order with the same colours, attributes and
\* matchers.
C18_Isolation ==
  AddCall => \A l \in OtherLists : lists[l] = before[l]

\* an update in one list while the list of another class holds a rule
C18_Witness ==
  /\ IsUpdate
  /\ New # Old
  /\ \E l \in OtherLists : lists[l] # << >>

====
